---- MODULE Spec2Model ----
(***************************************************************************)
(* Model of the invoice amount extractor (fin_logic.py) and of the request *)
(* handlers that drive it (main.py).                                       *)
(*                                                                         *)
(* A Python str is a sequence of one-character strings, so that slicing,   *)
(* replace(), strip(), split() and the regular expressions are computed    *)
(* character by character, the way the interpreter computes them.          *)
(***************************************************************************)
EXTENDS Integers, Sequences, FiniteSets, TLC

VARIABLES
    pc,                 \* position of the running call / request
    all_fragments,      \* reader.readtext() result: sequence of [bbox, text]
    amount_fragments,   \* fin_logic.py:39
    other_fragments,    \* fin_logic.py:40
    contextual_amounts, \* fin_logic.py:48 / :74, the records built so far
    chosen,             \* ghost: per amount, index in other_fragments of best_candidate (0: None)
    text_input,         \* argument of extract_contextual_amounts_from_text
    scan_pos,           \* 0-based index where re.finditer resumes
    matches,            \* ghost: per record, <<match.start(), match.end()>>
    endpoint,           \* which handler of main.py serves the request
    logic_loaded,       \* FALSE when the import at main.py:7-18 fell back to None
    llm_calls,          \* number of chain.invoke calls made in the request
    llm_failed,         \* ghost: the labeling collaborator raised
    ocr_failed,         \* ghost: the recognition collaborator raised
    context_string,     \* fin_logic.py:106, the text handed to the labeling collaborator
    response_str,       \* fin_logic.py:142
    outcome,            \* what the call hands to its caller
    files               \* main.py:70-75, which of the two JSON artefacts were written

\* The state of a request beyond the extraction itself.
reqVars == <<endpoint, logic_loaded, llm_calls, llm_failed, ocr_failed, context_string,
             response_str, outcome, files>>

vars == <<pc, all_fragments, amount_fragments, other_fragments, contextual_amounts,
          chosen, text_input, scan_pos, matches, reqVars>>

(***************************************************************************)
(* Bounds of the explored inputs.                                          *)
(***************************************************************************)
MaxFrags == 3
MaxTailChunks == 3
MaxTextChunks == 4
MaxRespChunks == 5

(***************************************************************************)
(* Character classes.                                                      *)
(***************************************************************************)
Digits == {"0", "1", "2", "3", "4", "5", "6", "7", "8", "9"}

\* \s of the re module (the ASCII members).
Whitespace == {" ", "\t", "\n", "\r", "\f"}

\* The alternation of currency markers of both patterns, in its written order:
\* $, S, euro sign, pound sign, rupee sign, INR, USD, EUR, GBP. The three
\* non-ASCII signs are written by their code points; each is one character.
CurrencyMarkers ==
    << <<"$">>, <<"S">>, <<"U+20AC">>, <<"U+00A3">>, <<"U+20B9">>,
       <<"I", "N", "R">>, <<"U", "S", "D">>, <<"E", "U", "R">>, <<"G", "B", "P">> >>

\* The class [\d,OolISZgqB\.] of the image-mode pattern.
NoisyDigitClass == Digits \cup {",", "O", "o", "l", "I", "S", "Z", "g", "q", "B", "."}

\* The class [\d,] of the text-mode pattern.
DigitCommaClass == Digits \cup {","}

Unknown == <<"U", "n", "k", "n", "o", "w", "n">>

(***************************************************************************)
(* Sequence helpers (Python slicing and str methods).                      *)
(***************************************************************************)
Min2(a, b) == IF a < b THEN a ELSE b
Max2(a, b) == IF a > b THEN a ELSE b

\* s[lo:hi] for 0 <= lo, 0 <= hi (0-based, hi exclusive, clipped to the length).
Slice(s, lo, hi) ==
    LET h == Min2(hi, Len(s))
    IN  IF lo >= h THEN <<>> ELSE SubSeq(s, lo + 1, h)

\* s.startswith(p, at) with a 0-based offset.
HasPrefixAt(s, p, at) ==
    /\ at + Len(p) <= Len(s)
    /\ \A k \in 1..Len(p) : s[at + k] = p[k]

\* str.replace(error, correction) for one-character arguments.
Replace(s, error, correction) ==
    [k \in 1..Len(s) |-> IF s[k] = error THEN correction ELSE s[k]]

RECURSIVE Concat(_)
Concat(ss) == IF ss = <<>> THEN <<>> ELSE Head(ss) \o Concat(Tail(ss))

(***************************************************************************)
(* clean_monetary_value, fin_logic.py:19-29.                               *)
(***************************************************************************)
\* The corrections dict, in insertion order (fin_logic.py:23-26).
corrections ==
    << <<"O", "0">>, <<"o", "0">>, <<"l", "1">>, <<"I", "1">>, <<"Z", "2">>,
       <<"g", "9">>, <<"q", "9">>, <<"B", "8">> >>

\* The loop of fin_logic.py:27-28 from entry k of the dict on.
RECURSIVE ApplyCorrections(_, _)
ApplyCorrections(numeric_part, k) ==
    IF k > Len(corrections) THEN numeric_part
    ELSE ApplyCorrections(Replace(numeric_part, corrections[k][1], corrections[k][2]), k + 1)

\* Precondition value # <<>> (value[0] raises IndexError otherwise); both
\* callers pass a non-empty regular-expression match.
clean_monetary_value(value) ==
    LET symbol == value[1]
        numeric_part == Tail(value)
    IN  <<symbol>> \o ApplyCorrections(numeric_part, 1)

(***************************************************************************)
(* extract_contextual_amounts, fin_logic.py:31-70.                         *)
(* A fragment is [bbox, text]; bbox is the four corners <<x, y>> in the    *)
(* recognizer's order (top-left, top-right, bottom-right, bottom-left).    *)
(* The confidence of a fragment is never read and is left out.             *)
(***************************************************************************)
\* ([\d,OolISZgqB\.]+) anchored at the end of the text: the characters after
\* 0-based offset `at` are at least one and all of the class.
NoisyRunToEnd(text, at) ==
    /\ at < Len(text)
    /\ \A k \in (at + 1)..Len(text) : text[k] \in NoisyDigitClass

\* The same pattern with the marker group made optional.
FullMatchMarkerOptional(text) ==
    \/ NoisyRunToEnd(text, 0)
    \/ \E m \in 1..Len(CurrencyMarkers) :
          LET p == Len(CurrencyMarkers[m])
          IN  /\ HasPrefixAt(text, CurrencyMarkers[m], 0)
              /\ \/ p < Len(text) /\ text[p + 1] \in Whitespace /\ NoisyRunToEnd(text, p + 1)
                 \/ NoisyRunToEnd(text, p)

\* re.fullmatch(money_pattern, text) of fin_logic.py:37,43: one alternative of
\* the marker group, then \s? (taken, or given back on backtracking), then the
\* run of the class up to the end of the text.
FullMatchMoney(text) ==
    \E m \in 1..Len(CurrencyMarkers) :
        LET p == Len(CurrencyMarkers[m])
        IN  /\ HasPrefixAt(text, CurrencyMarkers[m], 0)
            /\ \/ p < Len(text) /\ text[p + 1] \in Whitespace /\ NoisyRunToEnd(text, p + 1)
               \/ NoisyRunToEnd(text, p)

\* Twice the vertical centre (bbox[0][1] + bbox[2][1]) / 2 of fin_logic.py:50,56;
\* kept doubled so that half-unit centres stay integers.
YCenter2(bbox) == bbox[1][2] + bbox[3][2]

\* ax_left = bbox[0][0], fin_logic.py:51.
XLeft(bbox) == bbox[1][1]

\* ox_right = bbox[1][0], fin_logic.py:57.
XRight(bbox) == bbox[2][1]

Abs(n) == IF n < 0 THEN -n ELSE n

\* The row threshold of fin_logic.py:58.
RowThreshold == 20

\* The test with the row comparison made non-strict.
QualifiesRowInclusive(ay_center2, oy_center2, ox_right, ax_left) ==
    Abs(ay_center2 - oy_center2) <= 2 * RowThreshold /\ ox_right < ax_left

\* abs(ay_center - oy_center) < 20 and ox_right < ax_left, fin_logic.py:58
\* (both sides of the row comparison doubled).
Qualifies(ay_center2, oy_center2, ox_right, ax_left) ==
    Abs(ay_center2 - oy_center2) < 2 * RowThreshold /\ ox_right < ax_left

\* The update test with the comparison made non-strict (the last of equally
\* distant candidates would win).
CloserOrEqual(distance, st) == st.inf \/ distance <= st.min

\* distance < min_distance, fin_logic.py:60; st.inf stands for float('inf').
Closer(distance, st) == st.inf \/ distance < st.min

\* The loop of fin_logic.py:55-62 from candidate j on; st holds best_candidate
\* (as the index of the candidate, 0 for None) and min_distance.
RECURSIVE ScanCandidates(_, _, _, _)
ScanCandidates(amount, others, j, st) ==
    IF j > Len(others) THEN st
    ELSE LET other == others[j]
             ox_right == XRight(other.bbox)
             ax_left == XLeft(amount.bbox)
             distance == ax_left - ox_right
         IN  IF /\ Qualifies(YCenter2(amount.bbox), YCenter2(other.bbox), ox_right, ax_left)
                /\ Closer(distance, st)
             THEN ScanCandidates(amount, others, j + 1,
                                 [best |-> j, inf |-> FALSE, min |-> distance])
             ELSE ScanCandidates(amount, others, j + 1, st)

\* best_candidate after the loop, fin_logic.py:52-62.
BestCandidate(amount, others) ==
    ScanCandidates(amount, others, 1, [best |-> 0, inf |-> TRUE, min |-> 0]).best

\* best_candidate or "Unknown", fin_logic.py:67: None and '' are both falsy.
ContextOf(best, others) ==
    IF best = 0 \/ others[best].text = <<>> THEN Unknown ELSE others[best].text

\* The record appended at fin_logic.py:64-68.
GeoRecord(amount, others) ==
    [amount |-> clean_monetary_value(amount.text),
     context |-> ContextOf(BestCandidate(amount, others), others)]

(***************************************************************************)
(* Inputs of the image mode.                                               *)
(***************************************************************************)
Box(xl, xr, yt, yb) == << <<xl, yt>>, <<xr, yt>>, <<xr, yb>>, <<xl, yb>> >>

Boxes ==
    { Box(100, 150, 100, 120),   \* where an amount usually sits
      Box(30, 80, 100, 120),     \* same row, 20 to the left of x = 100
      Box(0, 30, 100, 120),      \* same row, 70 to the left
      Box(30, 80, 80, 101),      \* centre 19.5 above
      Box(30, 80, 80, 100) }     \* centre exactly 20 above

FragTexts == { <<"$", "1", "O">>, <<"A">>, <<"B">>, <<>> }

Fragments == [bbox : Boxes, text : FragTexts]

FragmentLists == UNION { [1..n -> Fragments] : n \in 0..MaxFrags }

TailChars == {" ", "\t", "1", "O", "S", "B", ",", ".", "x"}

Heads == {<<>>, <<"x">>} \cup {CurrencyMarkers[m] : m \in 1..Len(CurrencyMarkers)}

Tails == UNION { [1..n -> TailChars] : n \in 0..MaxTailChunks }

\* One fragment with a text from a wider set, for the classification.
SingleFragmentLists ==
    { << [bbox |-> Box(100, 150, 100, 120), text |-> h \o t] >> : h \in Heads, t \in Tails }

\* What a call hands back: a returned dict (kind "return"; parsed when it is the
\* decoded reply, whose canonical text is body) or a raised exception.
NoOutcome ==
    [kind |-> "none", parsed |-> FALSE, status |-> "", reason |-> "", raw_output |-> <<>>,
     body |-> <<>>]

NoFiles == [process_text |-> "absent", labelled_text |-> "absent"]

InitGeo ==
    /\ pc = "start"
    /\ all_fragments \in FragmentLists \cup SingleFragmentLists
    /\ amount_fragments = <<>>
    /\ other_fragments = <<>>
    /\ contextual_amounts = <<>>
    /\ chosen = <<>>
    /\ text_input = <<>>
    /\ scan_pos = 0
    /\ matches = <<>>
    /\ endpoint = "extract_contextual_amounts"
    /\ logic_loaded = TRUE
    /\ llm_calls = 0
    /\ llm_failed = FALSE
    /\ ocr_failed = FALSE
    /\ context_string = <<>>
    /\ response_str = <<>>
    /\ outcome = NoOutcome
    /\ files = NoFiles

\* The classification loop, fin_logic.py:42-46.
GeoClassify ==
    /\ pc = "start"
    /\ amount_fragments' = SelectSeq(all_fragments, LAMBDA f : FullMatchMoney(f.text))
    /\ other_fragments' = SelectSeq(all_fragments, LAMBDA f : ~FullMatchMoney(f.text))
    /\ pc' = "pair"
    /\ UNCHANGED <<all_fragments, contextual_amounts, chosen, text_input, scan_pos, matches,
                   reqVars>>

\* The pairing loop and the return, fin_logic.py:48-70.
GeoPair ==
    /\ pc = "pair"
    /\ contextual_amounts' =
          [k \in 1..Len(amount_fragments) |-> GeoRecord(amount_fragments[k], other_fragments)]
    /\ chosen' =
          [k \in 1..Len(amount_fragments) |-> BestCandidate(amount_fragments[k], other_fragments)]
    /\ pc' = "done"
    /\ UNCHANGED <<all_fragments, amount_fragments, other_fragments, text_input, scan_pos,
                   matches, reqVars>>

NextGeo == GeoClassify \/ GeoPair

SpecGeo == InitGeo /\ [][NextGeo]_vars

(***************************************************************************)
(* Properties of the image mode, stated from the coordinates and texts of  *)
(* the fragments, without the operators of the matcher.                    *)
(***************************************************************************)
\* Twice the distance between the vertical centres of two boxes.
RowGap2(a, o) == Abs((a[1][2] + a[3][2]) - (o[1][2] + o[3][2]))

\* Candidate j lies on the row of amount k and strictly to its left.
Eligible(k, j) ==
    /\ RowGap2(amount_fragments[k].bbox, other_fragments[j].bbox) < 40
    /\ other_fragments[j].bbox[2][1] < amount_fragments[k].bbox[1][1]

Gap(k, j) == amount_fragments[k].bbox[1][1] - other_fragments[j].bbox[2][1]

EligibleSet(k) == {j \in 1..Len(other_fragments) : Eligible(k, j)}

\* The first, in input order, of the eligible candidates at the smallest gap.
Nearest(k) ==
    CHOOSE j \in EligibleSet(k) :
        \A i \in EligibleSet(k) : Gap(k, j) < Gap(k, i) \/ (Gap(k, j) = Gap(k, i) /\ j <= i)

GeoDone == pc = "done" /\ endpoint = "extract_contextual_amounts"

\* C1 as stated: the context of every amount is the text of the nearest
\* eligible candidate (first in input order among equals), and "Unknown" when
\* no candidate is eligible.
C1_Original ==
    GeoDone =>
        \A k \in 1..Len(amount_fragments) :
            contextual_amounts[k].context =
                IF EligibleSet(k) = {} THEN Unknown ELSE other_fragments[Nearest(k)].text

\* C1 amended: as C1, except that a nearest candidate whose text is empty
\* also gives "Unknown".
C1_NearestFirstOrUnknown ==
    GeoDone =>
        \A k \in 1..Len(amount_fragments) :
            contextual_amounts[k].context =
                IF EligibleSet(k) = {} THEN Unknown
                ELSE IF other_fragments[Nearest(k)].text = <<>> THEN Unknown
                ELSE other_fragments[Nearest(k)].text

\* Two eligible candidates with different texts tie at the smallest gap and
\* the earlier one is the context.
C1_Witness ==
    /\ GeoDone
    /\ \E k \in 1..Len(amount_fragments) :
          \E i, j \in EligibleSet(k) :
              /\ i < j
              /\ Gap(k, i) = Gap(k, j)
              /\ \A h \in EligibleSet(k) : Gap(k, i) <= Gap(k, h)
              /\ other_fragments[i].text # other_fragments[j].text
              /\ other_fragments[i].text # <<>>
              /\ contextual_amounts[k].context = other_fragments[i].text

\* C2: the selected candidate is never 20 or more off the amount's row nor at
\* or right of the amount's left edge, and some candidate is selected whenever
\* one is less than 20 off the row and strictly to the left.
C2_OnlyEligibleSelected ==
    GeoDone =>
        \A k \in 1..Len(amount_fragments) :
            /\ chosen[k] # 0 =>
                  /\ RowGap2(amount_fragments[k].bbox, other_fragments[chosen[k]].bbox) < 40
                  /\ other_fragments[chosen[k]].bbox[2][1] < amount_fragments[k].bbox[1][1]
            /\ EligibleSet(k) # {} => chosen[k] # 0

\* A candidate exactly 20 off the row comes first and is passed over for a
\* later one 19.5 off the row at the same gap.
C2_Witness ==
    /\ GeoDone
    /\ \E k \in 1..Len(amount_fragments) :
          \E i, j \in 1..Len(other_fragments) :
              /\ i < j
              /\ RowGap2(amount_fragments[k].bbox, other_fragments[i].bbox) = 40
              /\ other_fragments[i].bbox[2][1] < amount_fragments[k].bbox[1][1]
              /\ RowGap2(amount_fragments[k].bbox, other_fragments[j].bbox) = 39
              /\ chosen[k] = j

\* The marker set and the character class as the grammar lists them.
GrammarMarkers ==
    { <<"$">>, <<"S">>, <<"U+20AC">>, <<"U+00A3">>, <<"U+20B9">>, <<"I", "N", "R">>, <<"U", "S", "D">>,
      <<"E", "U", "R">>, <<"G", "B", "P">> }

GrammarRunChars ==
    {"0", "1", "2", "3", "4", "5", "6", "7", "8", "9", ",", ".",
     "O", "o", "l", "I", "S", "Z", "g", "q", "B"}

\* text[from+1 ..] is a non-empty run of grammar characters.
GrammarRun(text, from) ==
    from < Len(text) /\ \A i \in (from + 1)..Len(text) : text[i] \in GrammarRunChars

\* marker, at most one separator out of seps, run.
MarkedAmount(text, seps) ==
    \E p \in 1..Len(text) :
        /\ SubSeq(text, 1, p) \in GrammarMarkers
        /\ \/ GrammarRun(text, p)
           \/ p < Len(text) /\ text[p + 1] \in seps /\ GrammarRun(text, p + 1)

Classified(IsAmount(_)) ==
    /\ amount_fragments = SelectSeq(all_fragments, LAMBDA f : IsAmount(f.text))
    /\ other_fragments = SelectSeq(all_fragments, LAMBDA f : ~IsAmount(f.text))

C3_ClaimedGrammar(text) == GrammarRun(text, 0) \/ MarkedAmount(text, {" "})

C3_CodeGrammar(text) == MarkedAmount(text, {" ", "\t", "\n", "\r", "\f"})

\* C3 as stated: the amount fragments are exactly those matching an optional
\* marker, an optional blank and a run of noisy-digit characters.
C3_Original == GeoDone => Classified(C3_ClaimedGrammar)

\* C3 amended: the marker is required and the optional separator is any one
\* whitespace character; a run without a marker is a context candidate.
C3_MarkerRequired == GeoDone => Classified(C3_CodeGrammar)

\* A bare run of noisy digits was classified as a context candidate and a
\* marked text as an amount.
C3_Witness ==
    /\ GeoDone
    /\ \E j \in 1..Len(other_fragments) : GrammarRun(other_fragments[j].text, 0)
    /\ \E k \in 1..Len(amount_fragments) : Len(amount_fragments[k].text) > 1

\* C4 as stated: for a symbol followed by noisy-digit characters the cleaned
\* value keeps the symbol and holds only digits, commas and periods after it.
C4_Original ==
    GeoDone =>
        \A k \in 1..Len(amount_fragments) :
            GrammarRun(amount_fragments[k].text, 1) =>
                /\ contextual_amounts[k].amount[1] = amount_fragments[k].text[1]
                /\ \A i \in 2..Len(contextual_amounts[k].amount) :
                      contextual_amounts[k].amount[i] \in
                          {"0", "1", "2", "3", "4", "5", "6", "7", "8", "9", ",", "."}

\* C5 as stated: the currency marker that starts an accepted amount text
\* starts the emitted amount unchanged.
C5_Original ==
    GeoDone =>
        \A k \in 1..Len(amount_fragments) :
            \A m \in GrammarMarkers :
                HasPrefixAt(amount_fragments[k].text, m, 0) =>
                    HasPrefixAt(contextual_amounts[k].amount, m, 0)

(***************************************************************************)
(* extract_contextual_amounts_from_text, fin_logic.py:72-97.               *)
(***************************************************************************)
\* Look-back of the context window, fin_logic.py:84.
WindowSize == 30

\* Number of words kept as the label, fin_logic.py:89.
LabelWords == 2

NoMatch == -1

\* End (0-based, exclusive) of [\d,]+ started at offset q; q itself when the
\* character there is not of the class.
RECURSIVE DigitRunEnd(_, _)
DigitRunEnd(text, q) ==
    IF q < Len(text) /\ text[q + 1] \in DigitCommaClass THEN DigitRunEnd(text, q + 1) ELSE q

\* [\d,]+(?:\.\d{1,2})?%? tried at offset q: the end of the match, or NoMatch.
\* Every quantifier is greedy and what follows the run is optional, so the
\* first attempt succeeds and nothing is given back.
NumberEndAt(text, q) ==
    LET r == DigitRunEnd(text, q)
        d == IF /\ r + 1 < Len(text)
                /\ text[r + 1] = "."
                /\ text[r + 2] \in Digits
             THEN IF r + 2 < Len(text) /\ text[r + 3] \in Digits THEN r + 3 ELSE r + 2
             ELSE r
        e == IF d < Len(text) /\ text[d + 1] = "%" THEN d + 1 ELSE d
    IN  IF r = q THEN NoMatch ELSE e

\* The optional group (?:(?:marker)\s?)? tried at offset p with the
\* alternatives from m on, in their order; with each, \s? is first taken and
\* then given back; last, the group is skipped.
RECURSIVE MatchEndFrom(_, _, _)
MatchEndFrom(text, p, m) ==
    IF m > Len(CurrencyMarkers) THEN NumberEndAt(text, p)
    ELSE IF ~HasPrefixAt(text, CurrencyMarkers[m], p) THEN MatchEndFrom(text, p, m + 1)
    ELSE LET q == p + Len(CurrencyMarkers[m])
             withSpace == IF q < Len(text) /\ text[q + 1] \in Whitespace
                          THEN NumberEndAt(text, q + 1) ELSE NoMatch
             without == NumberEndAt(text, q)
         IN  IF withSpace # NoMatch THEN withSpace
             ELSE IF without # NoMatch THEN without
             ELSE MatchEndFrom(text, p, m + 1)

\* money_pattern.match at offset p, fin_logic.py:75-77.
MatchEndAt(text, p) == MatchEndFrom(text, p, 1)

\* Start of the next match of re.finditer at or after offset p, or NoMatch.
RECURSIVE NextMatchStart(_, _)
NextMatchStart(text, p) ==
    IF p >= Len(text) THEN NoMatch
    ELSE IF MatchEndAt(text, p) # NoMatch THEN p
    ELSE NextMatchStart(text, p + 1)

\* The window taken from the start of the text, whatever the offset.
ContextWindowStartZero(start) == 0

\* max(0, match.start() - 30), fin_logic.py:84.
ContextWindowStart(start) == Max2(0, start - WindowSize)

\* str.strip(): whitespace removed at both ends.
RECURSIVE LStrip(_)
LStrip(s) == IF s # <<>> /\ Head(s) \in Whitespace THEN LStrip(Tail(s)) ELSE s

RECURSIVE RStrip(_)
RStrip(s) ==
    IF s # <<>> /\ s[Len(s)] \in Whitespace THEN RStrip(SubSeq(s, 1, Len(s) - 1)) ELSE s

Strip(s) == RStrip(LStrip(s))

\* str.split(): the maximal runs of non-whitespace, in order; cur is the word
\* being read.
RECURSIVE SplitFrom(_, _, _)
SplitFrom(s, k, cur) ==
    IF k > Len(s) THEN (IF cur = <<>> THEN <<>> ELSE <<cur>>)
    ELSE IF s[k] \in Whitespace
         THEN (IF cur = <<>> THEN <<>> ELSE <<cur>>) \o SplitFrom(s, k + 1, <<>>)
         ELSE SplitFrom(s, k + 1, Append(cur, s[k]))

Split(s) == SplitFrom(s, 1, <<>>)

\* " ".join(words)
RECURSIVE Join(_)
Join(words) ==
    IF words = <<>> THEN <<>>
    ELSE IF Len(words) = 1 THEN words[1]
    ELSE words[1] \o <<" ">> \o Join(Tail(words))

\* words_in_window[-2:], fin_logic.py:89.
LastWords(words) == SubSeq(words, Max2(1, Len(words) - LabelWords + 1), Len(words))

\* best_candidate of fin_logic.py:84-89 for a match starting at `start`.
TextContext(text, start) ==
    LET context_window == Slice(text, ContextWindowStart(start), start)
        words_in_window == Split(Strip(context_window))
    IN  IF words_in_window # <<>> THEN Join(LastWords(words_in_window)) ELSE Unknown

\* The record appended at fin_logic.py:81,91-95 for the match [start, end).
TextRecord(text, start, end) ==
    LET amount_text == Slice(text, start, end)
    IN  [amount |-> clean_monetary_value(amount_text), context |-> TextContext(text, start)]

(***************************************************************************)
(* Inputs of the text mode: texts put together from short pieces and one   *)
(* piece longer than half the window, and the sample of the test block     *)
(* (fin_logic.py:206).                                                     *)
(***************************************************************************)
Pad == <<"p", "x", "x", "x", "x", "x", "x", "x", "x", "x", "x", "x", "x", "x", "x", " ">>

TextChunks ==
    { <<" ">>, <<"a">>, <<"5">>, <<",">>, <<".">>, <<"$">>, <<"%">>, <<"G", "B", "P">>, Pad }

sample_text ==
    << "T", "h", "e", " ", "t", "o", "t", "a", "l", " ", "f", "o", "r", " ", "t", "h",
       "e", " ", "F", "u", "l", "l", " ", "C", "h", "e", "c", "k", " ", "U", "p", " ",
       "w", "a", "s", " ", "S", "7", "4", "5", ".", "0", "0", ".", " ", "T", "h", "e",
       " ", "f", "i", "n", "a", "l", " ", "i", "n", "v", "o", "i", "c", "e", " ", "T",
       "O", "T", "A", "L", " ", "i", "s", " ", "S", "1", ",", "9", "0", "2", ".", "0",
       "5", "." >>

Texts ==
    {Concat(cs) : cs \in UNION { [1..n -> TextChunks] : n \in 0..MaxTextChunks }}
        \cup {sample_text}

InitText ==
    /\ pc = "scan"
    /\ text_input \in Texts
    /\ scan_pos = 0
    /\ matches = <<>>
    /\ contextual_amounts = <<>>
    /\ all_fragments = <<>>
    /\ amount_fragments = <<>>
    /\ other_fragments = <<>>
    /\ chosen = <<>>
    /\ endpoint = "extract_contextual_amounts_from_text"
    /\ logic_loaded = TRUE
    /\ llm_calls = 0
    /\ llm_failed = FALSE
    /\ ocr_failed = FALSE
    /\ context_string = <<>>
    /\ response_str = <<>>
    /\ outcome = NoOutcome
    /\ files = NoFiles

\* One iteration of the loop over re.finditer, fin_logic.py:80-95.
TextScanMatch ==
    /\ pc = "scan"
    /\ NextMatchStart(text_input, scan_pos) # NoMatch
    /\ LET start == NextMatchStart(text_input, scan_pos)
           end == MatchEndAt(text_input, start)
       IN  /\ contextual_amounts' =
                 Append(contextual_amounts, TextRecord(text_input, start, end))
           /\ matches' = Append(matches, <<start, end>>)
           /\ scan_pos' = end
    /\ UNCHANGED <<pc, all_fragments, amount_fragments, other_fragments, chosen, text_input,
                   reqVars>>

\* The iterator is exhausted: return contextual_amounts, fin_logic.py:97.
TextReturn ==
    /\ pc = "scan"
    /\ NextMatchStart(text_input, scan_pos) = NoMatch
    /\ pc' = "done"
    /\ UNCHANGED <<all_fragments, amount_fragments, other_fragments, contextual_amounts,
                   chosen, text_input, scan_pos, matches, reqVars>>

NextText == TextScanMatch \/ TextReturn

SpecText == InitText /\ [][NextText]_vars

(***************************************************************************)
(* Properties of the text mode.  The expected label is read off the window *)
(* from its right end, without split().                                    *)
(***************************************************************************)
TextDone == pc = "done" /\ endpoint = "extract_contextual_amounts_from_text"

Blank(c) == c \in {" ", "\t", "\n", "\r", "\f"}

\* The characters of text_input at 0-based offsets max(0, i - 30) .. i - 1.
WindowBefore(i) ==
    LET n == IF i < 30 THEN i ELSE 30
    IN  [x \in 1..n |-> text_input[i - n + x]]

\* Last non-blank position of w before position b, 0 when there is none.
LastInk(w, b) ==
    LET ink == {x \in 1..(b - 1) : ~Blank(w[x])}
    IN  IF ink = {} THEN 0 ELSE CHOOSE x \in ink : \A y \in ink : y <= x

\* First position of the blank-free stretch of w that ends at e.
TokenStart(w, e) ==
    CHOOSE b \in 1..e :
        /\ \A x \in b..e : ~Blank(w[x])
        /\ b = 1 \/ Blank(w[b - 1])

ExpectedLabel(w) ==
    LET e2 == LastInk(w, Len(w) + 1)
    IN  IF e2 = 0 THEN Unknown
        ELSE LET b2 == TokenStart(w, e2)
                 e1 == LastInk(w, b2)
             IN  IF e1 = 0 THEN SubSeq(w, b2, e2)
                 ELSE SubSeq(w, TokenStart(w, e1), e1) \o <<" ">> \o SubSeq(w, b2, e2)

\* C6: the context of a match starting at index i is made of the last two
\* whitespace-separated tokens of text[max(0, i-30) : i] joined by one space
\* (the only token when there is one), and is "Unknown" when that window is
\* empty or all whitespace.
C6_WindowLabel ==
    \A k \in 1..Len(matches) :
        endpoint = "extract_contextual_amounts_from_text" =>
            contextual_amounts[k].context = ExpectedLabel(WindowBefore(matches[k][1]))

\* One text gave a match whose window is clamped at the start of the text and
\* a match whose window is cut 30 characters back, the latter with a two-token
\* label.
C6_Witness ==
    /\ TextDone
    /\ \E j, k \in 1..Len(matches) :
          /\ matches[j][1] \in 1..29
          /\ matches[k][1] > 30
          /\ contextual_amounts[j].context # Unknown
          /\ \E x \in 1..Len(contextual_amounts[k].context) :
                contextual_amounts[k].context[x] = " "

\* C7 as stated: every emitted amount holds at least one digit, and a text
\* without any digit yields no record.
C7_Original ==
    TextDone =>
        /\ \A k \in 1..Len(contextual_amounts) :
              \E x \in 1..Len(contextual_amounts[k].amount) :
                  contextual_amounts[k].amount[x] \in
                      {"0", "1", "2", "3", "4", "5", "6", "7", "8", "9"}
        /\ (\A x \in 1..Len(text_input) :
                text_input[x] \notin {"0", "1", "2", "3", "4", "5", "6", "7", "8", "9"})
              => contextual_amounts = <<>>

(***************************************************************************)
(* json.loads on the alphabet of the explored replies: objects, strings    *)
(* without escapes, unsigned integers, JSON whitespace.  A parse result is *)
(* [ok, end, val]: end is the 0-based offset after the value and val the   *)
(* decoded value written without whitespace (a repeated key keeps its      *)
(* first place and its last value, as a dict does).  Arrays, literals,     *)
(* fractions and escapes need characters the explored replies do not have. *)
(***************************************************************************)
JsonWhitespace == {" ", "\t", "\n", "\r"}

ParseFail == [ok |-> FALSE, end |-> 0, val |-> <<>>]

RECURSIVE SkipWs(_, _)
SkipWs(s, p) == IF p < Len(s) /\ s[p + 1] \in JsonWhitespace THEN SkipWs(s, p + 1) ELSE p

\* Offset of the first c at or after offset p, -1 when there is none.
RECURSIVE FindFrom(_, _, _)
FindFrom(s, c, p) ==
    IF p >= Len(s) THEN -1 ELSE IF s[p + 1] = c THEN p ELSE FindFrom(s, c, p + 1)

\* str.find(c)
Find(s, c) == FindFrom(s, c, 0)

\* Offset of the last c before offset p, -1 when there is none.
RECURSIVE RFindFrom(_, _, _)
RFindFrom(s, c, p) ==
    IF p <= 0 THEN -1 ELSE IF s[p] = c THEN p - 1 ELSE RFindFrom(s, c, p - 1)

\* str.rfind(c)
RFind(s, c) == RFindFrom(s, c, Len(s))

\* A string whose opening quote is at offset p; a control character inside it
\* is an error (strict mode).
ParseString(s, p) ==
    LET q == FindFrom(s, "\"", p + 1)
    IN  IF q = -1 THEN ParseFail
        ELSE IF \E i \in (p + 2)..q : s[i] \in {"\t", "\n", "\r", "\f"} THEN ParseFail
        ELSE [ok |-> TRUE, end |-> q + 1, val |-> Slice(s, p, q + 1)]

RECURSIVE DigitsEnd(_, _)
DigitsEnd(s, p) == IF p < Len(s) /\ s[p + 1] \in Digits THEN DigitsEnd(s, p + 1) ELSE p

\* An integer starting at offset p: 0, or a non-zero digit and more digits.
ParseNumber(s, p) ==
    LET e == IF s[p + 1] = "0" THEN p + 1 ELSE DigitsEnd(s, p)
    IN  [ok |-> TRUE, end |-> e, val |-> Slice(s, p, e)]

\* dict[key] = val on a sequence of <<key, val>> pairs.
SetKey(pairs, key, val) ==
    IF \E i \in 1..Len(pairs) : pairs[i][1] = key
    THEN [i \in 1..Len(pairs) |-> IF pairs[i][1] = key THEN <<key, val>> ELSE pairs[i]]
    ELSE Append(pairs, <<key, val>>)

RECURSIVE DumpPairs(_)
DumpPairs(pairs) ==
    IF pairs = <<>> THEN <<>>
    ELSE pairs[1][1] \o <<":">> \o pairs[1][2]
         \o (IF Len(pairs) > 1 THEN <<",">> ELSE <<>>) \o DumpPairs(Tail(pairs))

RECURSIVE ParseValue(_, _)
RECURSIVE ParseMembers(_, _, _)

\* The members of an object from offset p on, where a key must start.
ParseMembers(s, p, pairs) ==
    IF ~(p < Len(s) /\ s[p + 1] = "\"") THEN ParseFail
    ELSE LET key == ParseString(s, p)
         IN  IF ~key.ok THEN ParseFail
             ELSE LET c == SkipWs(s, key.end)
                  IN  IF ~(c < Len(s) /\ s[c + 1] = ":") THEN ParseFail
                      ELSE LET v == ParseValue(s, SkipWs(s, c + 1))
                           IN  IF ~v.ok THEN ParseFail
                               ELSE LET d == SkipWs(s, v.end)
                                        now == SetKey(pairs, key.val, v.val)
                                    IN  IF d >= Len(s) THEN ParseFail
                                        ELSE IF s[d + 1] = "}"
                                        THEN [ok |-> TRUE, end |-> d + 1,
                                              val |-> <<"{">> \o DumpPairs(now) \o <<"}">>]
                                        ELSE IF s[d + 1] = ","
                                        THEN ParseMembers(s, SkipWs(s, d + 1), now)
                                        ELSE ParseFail

\* The value starting at offset p.
ParseValue(s, p) ==
    IF p >= Len(s) THEN ParseFail
    ELSE IF s[p + 1] = "\"" THEN ParseString(s, p)
    ELSE IF s[p + 1] \in Digits THEN ParseNumber(s, p)
    ELSE IF s[p + 1] = "{"
         THEN LET q == SkipWs(s, p + 1)
              IN  IF q < Len(s) /\ s[q + 1] = "}"
                  THEN [ok |-> TRUE, end |-> q + 1, val |-> <<"{", "}">>]
                  ELSE ParseMembers(s, q, <<>>)
    ELSE ParseFail

\* json.loads(s): one value between optional whitespace and nothing after it;
\* ok = FALSE stands for json.JSONDecodeError.
JsonLoads(s) ==
    LET v == ParseValue(s, SkipWs(s, 0))
    IN  IF v.ok /\ SkipWs(s, v.end) = Len(s) THEN v ELSE ParseFail

(***************************************************************************)
(* label_amounts_with_llm, fin_logic.py:99-153.                            *)
(***************************************************************************)
\* The guard dropped: the collaborator is asked even for an empty list.
NeverShortCircuit(contextual_data) == FALSE

\* `if not contextual_data`, fin_logic.py:103.
ShortCircuit(contextual_data) == contextual_data = <<>>

NoAmountsFound ==
    [kind |-> "return", parsed |-> FALSE, status |-> "no_amounts_found",
     reason |-> "OCR found no amounts to process.", raw_output |-> <<>>, body |-> <<>>]

InvalidJson(raw) ==
    [kind |-> "return", parsed |-> FALSE, status |-> "error",
     reason |-> "LLM returned invalid JSON.", raw_output |-> raw, body |-> <<>>]

Raised(what, detail) ==
    [kind |-> "raise", parsed |-> FALSE, status |-> what, reason |-> detail,
     raw_output |-> <<>>, body |-> <<>>]

\* One line of the prompt, fin_logic.py:106.
ContextLine(item) ==
    <<"-", " ", "A", "m", "o", "u", "n", "t", ":", " ">> \o item.amount
        \o <<",", " ", "N", "e", "a", "r", "b", "y", " ", "T", "e", "x", "t", ":", " ">> \o item.context

\* "\n".join(lines)
RECURSIVE JoinLines(_)
JoinLines(lines) ==
    IF lines = <<>> THEN <<>>
    ELSE IF Len(lines) = 1 THEN lines[1]
    ELSE lines[1] \o <<"\n">> \o JoinLines(Tail(lines))

ContextString(contextual_data) ==
    JoinLines([k \in 1..Len(contextual_data) |-> ContextLine(contextual_data[k])])

\* The end of the candidate document taken at the first closing brace.
EndIndexFirst(response) == Find(response, "}")

\* end_index = response_str.rfind('}'), fin_logic.py:146.
EndIndex(response) == RFind(response, "}")

\* The try block of fin_logic.py:144-153 on the collaborator's reply.
ParseResponse(response) ==
    LET start_index == Find(response, "{")
        end_index == EndIndex(response)
    IN  IF start_index # -1 /\ end_index # -1
        THEN LET clean_json_str == Slice(response, start_index, end_index + 1)
                 loaded == JsonLoads(clean_json_str)
             IN  IF loaded.ok
                 THEN [kind |-> "return", parsed |-> TRUE, status |-> "", reason |-> "",
                       raw_output |-> <<>>, body |-> loaded.val]
                 ELSE InvalidJson(response)
        ELSE InvalidJson(response)

(***************************************************************************)
(* The extraction functions as the handlers call them, in one step.        *)
(***************************************************************************)
\* fin_logic.py:31-70
extract_contextual_amounts(fragments) ==
    LET amounts == SelectSeq(fragments, LAMBDA f : FullMatchMoney(f.text))
        others == SelectSeq(fragments, LAMBDA f : ~FullMatchMoney(f.text))
    IN  [k \in 1..Len(amounts) |-> GeoRecord(amounts[k], others)]

\* The records of the matches found from offset p on.
RECURSIVE TextRecordsFrom(_, _)
TextRecordsFrom(text, p) ==
    LET start == NextMatchStart(text, p)
    IN  IF start = NoMatch THEN <<>>
        ELSE <<TextRecord(text, start, MatchEndAt(text, start))>>
             \o TextRecordsFrom(text, MatchEndAt(text, start))

\* fin_logic.py:72-97
extract_contextual_amounts_from_text(text) == TextRecordsFrom(text, 0)

(***************************************************************************)
(* The request handlers, main.py:33-77.                                    *)
(***************************************************************************)
ReqFragmentLists ==
    { <<>>,
      << [bbox |-> Box(30, 80, 100, 120), text |-> <<"A">>] >>,
      << [bbox |-> Box(30, 80, 100, 120), text |-> <<"A">>],
         [bbox |-> Box(100, 150, 100, 120), text |-> <<"$", "1", "O">>] >> }

ReqTexts == { <<>>, <<"a">>, <<"a", " ", "5">> }

\* Pieces of the collaborator's replies.
RespChunks == { <<"{">>, <<"}">>, <<"\"", "k", "\"", ":">>, <<"1">>, <<",">>, <<" ">>, <<"x">> }

Responses ==
    {Concat(cs) : cs \in UNION { [1..n -> RespChunks] : n \in 0..MaxRespChunks }}

InitReq ==
    /\ pc = "request"
    /\ endpoint \in {"read_root", "process_invoice_image", "process_invoice_text"}
    /\ logic_loaded \in BOOLEAN
    /\ all_fragments \in (IF endpoint = "process_invoice_image" THEN ReqFragmentLists ELSE {<<>>})
    /\ text_input \in (IF endpoint = "process_invoice_text" THEN ReqTexts ELSE {<<>>})
    /\ amount_fragments = <<>>
    /\ other_fragments = <<>>
    /\ contextual_amounts = <<>>
    /\ chosen = <<>>
    /\ scan_pos = 0
    /\ matches = <<>>
    /\ llm_calls = 0
    /\ llm_failed = FALSE
    /\ ocr_failed = FALSE
    /\ context_string = <<>>
    /\ response_str = <<>>
    /\ outcome = NoOutcome
    /\ files = NoFiles

extractVars == <<all_fragments, amount_fragments, other_fragments, chosen, text_input,
                 scan_pos, matches>>

\* read_root, main.py:33-36.
ReadRoot ==
    /\ pc = "request"
    /\ endpoint = "read_root"
    /\ outcome' = [kind |-> "return", parsed |-> FALSE, status |-> "ok",
                   reason |-> "Invoice Processor API is running.", raw_output |-> <<>>,
                   body |-> <<>>]
    /\ pc' = "done"
    /\ UNCHANGED <<extractVars, contextual_amounts, endpoint, logic_loaded, llm_calls,
                   llm_failed, ocr_failed, context_string, response_str, files>>

\* process_invoice_image with the logic not imported, main.py:44-45.
ProcessImageUnavailable ==
    /\ pc = "request"
    /\ endpoint = "process_invoice_image"
    /\ ~logic_loaded
    /\ outcome' = Raised("HTTPException 503", "Server logic is not available or failed to load.")
    /\ pc' = "done"
    /\ UNCHANGED <<extractVars, contextual_amounts, endpoint, logic_loaded, llm_calls,
                   llm_failed, ocr_failed, context_string, response_str, files>>

\* process_invoice_image, main.py:48-51, when reader.readtext (fin_logic.py:35)
\* raises: nothing on the way catches it.
ProcessImageRecognitionFails ==
    /\ pc = "request"
    /\ endpoint = "process_invoice_image"
    /\ logic_loaded
    /\ ocr_failed' = TRUE
    /\ outcome' = Raised("recognition exception", "")
    /\ pc' = "done"
    /\ UNCHANGED <<extractVars, contextual_amounts, endpoint, logic_loaded, llm_calls,
                   llm_failed, context_string, response_str, files>>

\* process_invoice_image up to the extracted records, main.py:48-51.
ProcessImageExtract ==
    /\ pc = "request"
    /\ endpoint = "process_invoice_image"
    /\ logic_loaded
    /\ amount_fragments' = SelectSeq(all_fragments, LAMBDA f : FullMatchMoney(f.text))
    /\ other_fragments' = SelectSeq(all_fragments, LAMBDA f : ~FullMatchMoney(f.text))
    /\ contextual_amounts' = extract_contextual_amounts(all_fragments)
    /\ pc' = "label"
    /\ UNCHANGED <<all_fragments, chosen, text_input, scan_pos, matches, reqVars>>

\* process_invoice_text with the logic not imported, main.py:64-65.
ProcessTextUnavailable ==
    /\ pc = "request"
    /\ endpoint = "process_invoice_text"
    /\ ~logic_loaded
    /\ outcome' = Raised("HTTPException 503", "Server logic is not available or failed to load.")
    /\ pc' = "done"
    /\ UNCHANGED <<extractVars, contextual_amounts, endpoint, logic_loaded, llm_calls,
                   llm_failed, ocr_failed, context_string, response_str, files>>

\* process_invoice_text up to the dump of the records, main.py:68-71.
ProcessTextExtract ==
    /\ pc = "request"
    /\ endpoint = "process_invoice_text"
    /\ logic_loaded
    /\ contextual_amounts' = extract_contextual_amounts_from_text(text_input)
    /\ files' = [files EXCEPT !.process_text = "written"]
    /\ pc' = "label"
    /\ UNCHANGED <<extractVars, endpoint, logic_loaded, llm_calls, llm_failed, ocr_failed,
                   context_string, response_str, outcome>>

\* main.py:74-75: the text handler dumps what label_amounts_with_llm returned.
FilesAfterLabel ==
    IF endpoint = "process_invoice_text"
    THEN [files EXCEPT !.labelled_text = "written"] ELSE files

\* label_amounts_with_llm on an empty list, fin_logic.py:103-104, and the
\* handler's return.
LabelShortCircuit ==
    /\ pc = "label"
    /\ ShortCircuit(contextual_amounts)
    /\ outcome' = NoAmountsFound
    /\ files' = FilesAfterLabel
    /\ pc' = "done"
    /\ UNCHANGED <<extractVars, contextual_amounts, endpoint, logic_loaded, llm_calls,
                   llm_failed, ocr_failed, context_string, response_str>>

\* label_amounts_with_llm when chain.invoke raises, fin_logic.py:106-142: the
\* call is outside the try block and the handlers catch nothing.
LabelInvokeRaises ==
    /\ pc = "label"
    /\ ~ShortCircuit(contextual_amounts)
    /\ context_string' = ContextString(contextual_amounts)
    /\ llm_calls' = llm_calls + 1
    /\ llm_failed' = TRUE
    /\ outcome' = Raised("labeling exception", "")
    /\ pc' = "done"
    /\ UNCHANGED <<extractVars, contextual_amounts, endpoint, logic_loaded, ocr_failed,
                   response_str, files>>

\* label_amounts_with_llm when chain.invoke answers, fin_logic.py:106-153, and
\* the handler's return.
LabelInvokeReturns ==
    /\ pc = "label"
    /\ ~ShortCircuit(contextual_amounts)
    /\ \E response \in Responses :
          /\ response_str' = response
          /\ outcome' = ParseResponse(response)
    /\ context_string' = ContextString(contextual_amounts)
    /\ llm_calls' = llm_calls + 1
    /\ files' = FilesAfterLabel
    /\ pc' = "done"
    /\ UNCHANGED <<extractVars, contextual_amounts, endpoint, logic_loaded, llm_failed,
                   ocr_failed>>

NextReq ==
    \/ ReadRoot
    \/ ProcessImageUnavailable
    \/ ProcessImageRecognitionFails
    \/ ProcessImageExtract
    \/ ProcessTextUnavailable
    \/ ProcessTextExtract
    \/ LabelShortCircuit
    \/ LabelInvokeRaises
    \/ LabelInvokeReturns

SpecReq == InitReq /\ [][NextReq]_vars

(***************************************************************************)
(* Properties of a request.                                                *)
(***************************************************************************)
Processing == endpoint \in {"process_invoice_image", "process_invoice_text"}

\* label_amounts_with_llm was called and the request is over.
Labelled == Processing /\ pc = "done" /\ logic_loaded /\ ~ocr_failed

\* C8: with an empty record list the labeling call reports no_amounts_found
\* and the collaborator is never invoked in the request; with a non-empty list
\* it is invoked exactly once.
C8_ShortCircuitOrOneCall ==
    Processing =>
        /\ llm_calls <= 1
        /\ contextual_amounts = <<>> => llm_calls = 0
        /\ Labelled /\ contextual_amounts = <<>> =>
              outcome.kind = "return" /\ outcome.status = "no_amounts_found"
        /\ Labelled /\ contextual_amounts # <<>> => llm_calls = 1

\* A text without amounts went through the text handler and ended with
\* no_amounts_found and no call of the collaborator.
C8_Witness ==
    /\ Labelled
    /\ endpoint = "process_invoice_text"
    /\ text_input # <<>>
    /\ contextual_amounts = <<>>
    /\ outcome.status = "no_amounts_found"
    /\ llm_calls = 0

\* The collaborator answered and the request is over.
Replied == pc = "done" /\ llm_calls = 1 /\ ~llm_failed

Opening == {i \in 1..Len(response_str) : response_str[i] = "{"}

Closing == {i \in 1..Len(response_str) : response_str[i] = "}"}

\* The reply from its first opening to its last closing brace, inclusive.
CandidateSpan ==
    LET a == CHOOSE i \in Opening : \A j \in Opening : i <= j
        b == CHOOSE i \in Closing : \A j \in Closing : j <= i
    IN  IF a <= b THEN SubSeq(response_str, a, b) ELSE <<>>

C10_Original ==
    pc = "done" /\ (ocr_failed \/ llm_failed) =>
        outcome.kind = "return" /\ outcome.status = "error"

====
